---- MODULE Spec2Model ----
(***************************************************************************)
(* The clustering reconcile loop of the MySQL operator                     *)
(* (controllers/mysql_clustering.go): probe every instance, plan with      *)
(* decideNextOperation, run the planned operators one after another, and   *)
(* write the cluster status.                                               *)
(***************************************************************************)
EXTENDS Integers, Sequences, FiniteSets, TLC

(* ------------------------------ bounds --------------------------------- *)
MaxReplicas == 3
MaxGtid == 1
MaxWaitCount == 1
MaxIoErrno == 1

(* --------------------------- basic vocabulary -------------------------- *)
\* A Go pointer is a sequence of length at most one; nil is the empty one.
Nil == <<>>
Ptr(x) == <<x>>
Deref(p) == p[1]

ConditionAvailable == "Available"
ConditionHealthy == "Healthy"
ConditionOutOfSync == "OutOfSync"
ConditionFailure == "Failure"
ConditionViolation == "Violation"
ConditionTrue == "True"
ConditionFalse == "False"

ErrNil == "nil"
ErrUnavailableHost == "ErrUnavailableHost"
ErrConstraintsViolation == "ErrConstraintsViolation"
ErrConstraintsRecovered == "ErrConstraintsRecovered"
ErrOperator == "operator error"
ErrStatusUpdate == "status update error"

OperatorUpdatePrimary == "update-primary"
OperatorConfigureReplication == "configure-replication"
OperatorTurnOffReadOnly == "turn-off-read-only"

VARIABLES
    replicas,   \* cluster.Spec.Replicas
    mysql,      \* the live MySQL instances, by ordinal
    store,      \* the cluster status persisted in the resource store
    cluster,    \* cluster.Status of the in-memory object of the running reconcile
    status,     \* *MySQLClusterStatus collected by the probe of this reconcile
    op,         \* *Operation returned by decideNextOperation
    next,       \* number of operators of op.Operators already run
    err,        \* the error the reconcile is about to return
    result,     \* what the reconcile did so far (status writes, requeue)
    pc          \* position of the reconcile driver

vars == <<replicas, mysql, store, cluster, status, op, next, err, result, pc>>

Instances == 0 .. (replicas - 1)

(* ------------------------------ conditions ----------------------------- *)
\* cluster.Status.Conditions is a function from the condition types present
\* to their status value.
findCondition(conditions, condType) ==
    IF condType \in DOMAIN conditions THEN Ptr(conditions[condType]) ELSE Nil

setCondition(conditions, cond) ==
    [t \in (DOMAIN conditions) \cup {cond.Type} |->
        IF t = cond.Type THEN cond.Status ELSE conditions[t]]

Cond(t, s) == [Type |-> t, Status |-> s]

NoConditions == [t \in {} |-> ConditionFalse]

RECURSIVE setConditions(_, _)
setConditions(conditions, list) ==
    IF list = <<>> THEN conditions
    ELSE setConditions(setCondition(conditions, Head(list)), Tail(list))

(* ------------------------------ DNS names ------------------------------ *)
uniqueName == "c"
Namespace == "ns"

\* "%s-%d" of a unique name and an ordinal.
PodName(name, index) == <<name, "-", index>>

\* "%s.%s.%s.svc" of the pod name, the unique name and the namespace.
HostOf(name, index) == <<PodName(name, index), ".", name, ".", Namespace, ".svc">>

PrimaryHost(index) == HostOf(uniqueName, index)

\* A master host that is no instance of this cluster (left by an earlier setup).
ForeignHost == HostOf("old", 0)

(* ------------------------------ the probe ------------------------------ *)
\* Where the probe of one instance stops: "none" when every sub-query succeeds.
ProbeFailures == {"none", "getDB", "primary", "replica", "globals", "clone"}

getMySQLPrimaryStatus(i) == Ptr([ExecutedGtidSet |-> mysql[i].Gtid])

\* SHOW SLAVE STATUS has no row on an instance that never was a replica.
getMySQLReplicaStatus(i) ==
    IF mysql[i].Replica = Nil THEN Nil
    ELSE Ptr([MasterHost      |-> Deref(mysql[i].Replica).MasterHost,
              LastIoErrno     |-> Deref(mysql[i].Replica).LastIoErrno,
              ExecutedGtidSet |-> mysql[i].Gtid])

getMySQLGlobalVariablesStatus(i) ==
    Ptr([ReadOnly |-> mysql[i].ReadOnly,
         RplSemiSyncMasterWaitForSlaveCount |-> mysql[i].RplSemiSyncMasterWaitForSlaveCount])

\* performance_schema.clone_status is empty: no clone was ever run.
getMySQLCloneStateStatus(i) == Nil

getMySQLClusterStatus(fail) ==
    [i \in Instances |->
        [Available            |-> fail[i] = "none",
         PrimaryStatus        |-> IF fail[i] \in {"getDB", "primary"} THEN Nil
                                  ELSE getMySQLPrimaryStatus(i),
         ReplicaStatus        |-> IF fail[i] \in {"getDB", "primary", "replica"} THEN Nil
                                  ELSE getMySQLReplicaStatus(i),
         GlobalVariableStatus |-> IF fail[i] \in {"getDB", "primary", "replica", "globals"}
                                  THEN Nil
                                  ELSE getMySQLGlobalVariablesStatus(i),
         CloneStateStatus     |-> IF fail[i] = "none" THEN getMySQLCloneStateStatus(i)
                                  ELSE Nil]]

\* The outcomes of one probe: every instance answers, or the sub-queries of
\* some instances fail, all at the same point.
ProbeOutcomes ==
    {[i \in Instances |-> "none"]} \cup
    {[i \in Instances |-> IF i \in down THEN point ELSE "none"] :
        down \in (SUBSET Instances) \ {{}}, point \in ProbeFailures \ {"none"}}

(* ------------------------------ the planner ---------------------------- *)
Indices == [k \in 1 .. replicas |-> k - 1]

violationCondition ==
    << Cond(ConditionViolation, ConditionTrue),
       Cond(ConditionFailure, ConditionTrue),
       Cond(ConditionAvailable, ConditionFalse),
       Cond(ConditionHealthy, ConditionFalse) >>

\* unavailableCondition leaving the Failure condition out of its list.
unavailableConditionKeepsFailure(outOfSyncInstances) ==
    << Cond(ConditionOutOfSync,
            IF Len(outOfSyncInstances) = 0 THEN ConditionFalse ELSE ConditionTrue),
       Cond(ConditionHealthy, ConditionFalse),
       Cond(ConditionAvailable, ConditionFalse) >>

unavailableCondition(outOfSyncInstances) ==
    << Cond(ConditionOutOfSync,
            IF Len(outOfSyncInstances) = 0 THEN ConditionFalse ELSE ConditionTrue),
       Cond(ConditionFailure, ConditionFalse),
       Cond(ConditionHealthy, ConditionFalse),
       Cond(ConditionAvailable, ConditionFalse) >>

\* availableCondition reporting Healthy=True whatever the out-of-sync list is.
availableConditionAlwaysHealthy(outOfSyncInstances) ==
    << Cond(ConditionOutOfSync,
            IF Len(outOfSyncInstances) = 0 THEN ConditionFalse ELSE ConditionTrue),
       Cond(ConditionHealthy, ConditionTrue),
       Cond(ConditionFailure, ConditionFalse),
       Cond(ConditionAvailable, ConditionTrue) >>

availableCondition(outOfSyncInstances) ==
    << Cond(ConditionOutOfSync,
            IF Len(outOfSyncInstances) = 0 THEN ConditionFalse ELSE ConditionTrue),
       Cond(ConditionHealthy,
            IF Len(outOfSyncInstances) = 0 THEN ConditionTrue ELSE ConditionFalse),
       Cond(ConditionFailure, ConditionFalse),
       Cond(ConditionAvailable, ConditionTrue) >>

Max(S) == CHOOSE m \in S : \A x \in S : x <= m

validateConstraints(st, cl) ==
    LET writable == {i \in DOMAIN st : ~Deref(st[i].GlobalVariableStatus).ReadOnly}
        writableInstanceCounts == Cardinality(writable)
        primaryIndex == IF writable = {} THEN 0 ELSE Max(writable)
    IN  IF writableInstanceCounts > 1 THEN ErrConstraintsViolation
        ELSE IF /\ cl.CurrentPrimaryIndex # Nil
                /\ writableInstanceCounts = 1
                /\ Deref(cl.CurrentPrimaryIndex) # primaryIndex
             THEN ErrConstraintsViolation
        ELSE IF findCondition(cl.Conditions, ConditionViolation) # Nil
             THEN ErrConstraintsRecovered
        ELSE ErrNil

selectPrimary(st, cl) == 0

\* updatePrimary planning only while no index is recorded.
updatePrimaryOnlyWhenAbsent(cl, newPrimaryIndex) ==
    IF cl.CurrentPrimaryIndex # Nil
    THEN <<>>
    ELSE << [Name |-> OperatorUpdatePrimary, newPrimaryIndex |-> newPrimaryIndex] >>

updatePrimary(cl, newPrimaryIndex) ==
    IF cl.CurrentPrimaryIndex # Nil /\ Deref(cl.CurrentPrimaryIndex) = newPrimaryIndex
    THEN <<>>
    ELSE << [Name |-> OperatorUpdatePrimary, newPrimaryIndex |-> newPrimaryIndex] >>

NeedsReplication(st, cl, i) ==
    /\ i # Deref(cl.CurrentPrimaryIndex)
    /\ \/ st[i].ReplicaStatus = Nil
       \/ Deref(st[i].ReplicaStatus).MasterHost # PrimaryHost(Deref(cl.CurrentPrimaryIndex))

\* configureReplication passing over an instance that has no replica status.
configureReplicationSkipsNil(st, cl) ==
    LET primaryHost == PrimaryHost(Deref(cl.CurrentPrimaryIndex))
        picked == SelectSeq(Indices, LAMBDA i :
                     /\ i # Deref(cl.CurrentPrimaryIndex)
                     /\ st[i].ReplicaStatus # Nil
                     /\ Deref(st[i].ReplicaStatus).MasterHost # primaryHost)
    IN  [k \in 1 .. Len(picked) |->
            [Name |-> OperatorConfigureReplication,
             index |-> picked[k],
             primaryHost |-> primaryHost]]

\* configureReplication without the check that skips the primary.
configureReplicationIncludesPrimary(st, cl) ==
    LET primaryHost == PrimaryHost(Deref(cl.CurrentPrimaryIndex))
        picked == SelectSeq(Indices, LAMBDA i :
                     \/ st[i].ReplicaStatus = Nil
                     \/ Deref(st[i].ReplicaStatus).MasterHost # primaryHost)
    IN  [k \in 1 .. Len(picked) |->
            [Name |-> OperatorConfigureReplication,
             index |-> picked[k],
             primaryHost |-> primaryHost]]

configureReplication(st, cl) ==
    LET primaryHost == PrimaryHost(Deref(cl.CurrentPrimaryIndex))
        picked == SelectSeq(Indices, LAMBDA i : NeedsReplication(st, cl, i))
    IN  [k \in 1 .. Len(picked) |->
            [Name |-> OperatorConfigureReplication,
             index |-> picked[k],
             primaryHost |-> primaryHost]]

\* waitForReplication comparing the count with <= instead of <.
waitForReplicationOffByOne(st, cl) ==
    LET primaryIndex == Deref(cl.CurrentPrimaryIndex)
        others == {i \in DOMAIN st : i # primaryIndex}
        outOfSyncIns ==
            SelectSeq(Indices, LAMBDA i :
                i \in others /\ Deref(st[i].ReplicaStatus).LastIoErrno # 0)
        count == Cardinality({i \in others :
                    /\ Deref(st[i].ReplicaStatus).LastIoErrno = 0
                    /\ Deref(st[i].ReplicaStatus).ExecutedGtidSet
                          = Deref(st[primaryIndex].PrimaryStatus).ExecutedGtidSet})
    IN  [panics |-> FALSE,
         wait |-> IF ~Deref(st[primaryIndex].GlobalVariableStatus).ReadOnly THEN FALSE
                  ELSE count <= (replicas \div 2),
         outOfSyncIns |-> outOfSyncIns]

\* waitForReplication without the early return for a writable primary.
waitForReplicationGtidAlways(st, cl) ==
    LET primaryIndex == Deref(cl.CurrentPrimaryIndex)
        others == {i \in DOMAIN st : i # primaryIndex}
        outOfSyncIns ==
            SelectSeq(Indices, LAMBDA i :
                i \in others /\ Deref(st[i].ReplicaStatus).LastIoErrno # 0)
        count == Cardinality({i \in others :
                    /\ Deref(st[i].ReplicaStatus).LastIoErrno = 0
                    /\ Deref(st[i].ReplicaStatus).ExecutedGtidSet
                          = Deref(st[primaryIndex].PrimaryStatus).ExecutedGtidSet})
    IN  [panics |-> FALSE,
         wait |-> count < (replicas \div 2),
         outOfSyncIns |-> outOfSyncIns]

\* panics: the loop dereferences is.ReplicaStatus of every non-primary instance.
waitForReplication(st, cl) ==
    LET primaryIndex == Deref(cl.CurrentPrimaryIndex)
        others == {i \in DOMAIN st : i # primaryIndex}
        panics == \/ primaryIndex \notin DOMAIN st
                  \/ st[primaryIndex].PrimaryStatus = Nil
                  \/ st[primaryIndex].GlobalVariableStatus = Nil
                  \/ \E i \in others : st[i].ReplicaStatus = Nil
    IN  IF panics THEN [panics |-> TRUE, wait |-> FALSE, outOfSyncIns |-> <<>>]
        ELSE
        LET primaryStatus == st[primaryIndex]
            primaryGTID == Deref(primaryStatus.PrimaryStatus).ExecutedGtidSet
            outOfSyncIns ==
                SelectSeq(Indices, LAMBDA i :
                    i \in others /\ Deref(st[i].ReplicaStatus).LastIoErrno # 0)
            count == Cardinality({i \in others :
                        /\ Deref(st[i].ReplicaStatus).LastIoErrno = 0
                        /\ Deref(st[i].ReplicaStatus).ExecutedGtidSet = primaryGTID})
        IN  [panics |-> FALSE,
             wait |-> IF ~Deref(primaryStatus.GlobalVariableStatus).ReadOnly THEN FALSE
                      ELSE count < (replicas \div 2),
             outOfSyncIns |-> outOfSyncIns]

\* acceptWriteRequest clearing read_only on the last instance, not the primary.
acceptWriteRequestLastInstance(st, cl) ==
    LET primaryIndex == Deref(cl.CurrentPrimaryIndex)
    IN  IF ~Deref(st[primaryIndex].GlobalVariableStatus).ReadOnly THEN <<>>
        ELSE << [Name |-> OperatorTurnOffReadOnly, primaryIndex |-> replicas - 1] >>

\* acceptWriteRequest without the check that the primary is still read-only.
acceptWriteRequestAlways(st, cl) ==
    << [Name |-> OperatorTurnOffReadOnly,
        primaryIndex |-> Deref(cl.CurrentPrimaryIndex)] >>

acceptWriteRequest(st, cl) ==
    LET primaryIndex == Deref(cl.CurrentPrimaryIndex)
    IN  IF ~Deref(st[primaryIndex].GlobalVariableStatus).ReadOnly THEN <<>>
        ELSE << [Name |-> OperatorTurnOffReadOnly, primaryIndex |-> primaryIndex] >>

Operation(operators, wait, conditions, syncedReplicas) ==
    [Operators |-> operators, Wait |-> wait,
     Conditions |-> conditions, SyncedReplicas |-> syncedReplicas]

NoOperation == Operation(<<>>, FALSE, <<>>, Nil)

ErrPanic == "panic: nil pointer dereference"

\* The last two stages of decideNextOperation (lines 148-169).
decideAfterReplication(st, cl) ==
    LET w == waitForReplication(st, cl)
        syncedReplicas == replicas - Len(w.outOfSyncIns)
    IN  IF w.panics THEN [op |-> NoOperation, err |-> ErrPanic]
        ELSE IF w.wait
        THEN [op |-> Operation(<<>>, TRUE, unavailableCondition(w.outOfSyncIns), Nil),
              err |-> ErrNil]
        ELSE [op |-> Operation(acceptWriteRequest(st, cl), FALSE,
                               availableCondition(w.outOfSyncIns), Ptr(syncedReplicas)),
              err |-> ErrNil]

\* decideNextOperation going on to the write stage after it has planned
\* replication, instead of returning.
decideNextOperationFallsThrough(st, cl) ==
    IF \E i \in DOMAIN st : ~st[i].Available
    THEN [op |-> NoOperation, err |-> ErrUnavailableHost]
    ELSE
    LET verr == validateConstraints(st, cl)
    IN  IF verr # ErrNil
        THEN [op |-> Operation(<<>>, FALSE, violationCondition, Nil), err |-> verr]
        ELSE
        LET ops == updatePrimary(cl, selectPrimary(st, cl))
        IN  IF Len(ops) # 0
            THEN [op |-> Operation(ops, FALSE, <<>>, Nil), err |-> ErrNil]
            ELSE
            LET rops == configureReplication(st, cl)
            IN  IF Len(rops) # 0
                THEN [op |-> Operation(rops \o acceptWriteRequest(st, cl), FALSE, <<>>, Nil),
                      err |-> ErrNil]
                ELSE decideAfterReplication(st, cl)

decideNextOperation(st, cl) ==
    IF \E i \in DOMAIN st : ~st[i].Available
    THEN [op |-> NoOperation, err |-> ErrUnavailableHost]
    ELSE
    LET verr == validateConstraints(st, cl)
    IN  IF verr # ErrNil
        THEN [op |-> Operation(<<>>, FALSE, violationCondition, Nil), err |-> verr]
        ELSE
        LET ops == updatePrimary(cl, selectPrimary(st, cl))
        IN  IF Len(ops) # 0
            THEN [op |-> Operation(ops, FALSE, <<>>, Nil), err |-> ErrNil]
            ELSE
            LET rops == configureReplication(st, cl)
            IN  IF Len(rops) # 0
                THEN [op |-> Operation(rops, FALSE, <<>>, Nil), err |-> ErrNil]
                ELSE decideAfterReplication(st, cl)

(* ------------------------------ operators ------------------------------ *)
\* The statements the operators send with db.Exec.
StmtSemiSyncMaster ==
    "SET GLOBAL rpl_semi_sync_master_enabled=ON,GLOBAL rpl_semi_sync_slave_enabled=OFF"
StmtWaitForSlaveCount == "SET GLOBAL rpl_semi_sync_master_wait_for_slave_count=?"
StmtStopSlave == "STOP SLAVE"
StmtChangeMaster == "CHANGE MASTER TO"
StmtSemiSyncSlave ==
    "SET GLOBAL rpl_semi_sync_master_enabled=OFF,GLOBAL rpl_semi_sync_slave_enabled=ON"
StmtStartSlave == "START SLAVE"
StmtReadOnlyOff == "set global read_only=0"

\* What one Run leaves behind: the servers, the in-memory and the stored
\* resource, the statements sent (a statement that fails was sent), the error.
Outcome(m, cl, s, stmts, e) ==
    [mysql |-> m, cluster |-> cl, store |-> s, issued |-> stmts, err |-> e]

UpdatePrimaryFailures == {"none", "getDB", "update", "semisync", "waitcount"}

\* updatePrimaryOp.Run sending its first statement before Status().Update.
updatePrimaryOpRunExecFirst(o, failAt) ==
    LET idx == o.newPrimaryIndex
        c1 == [cluster EXCEPT !.CurrentPrimaryIndex = Ptr(idx)]
        m1 == [mysql EXCEPT ![idx].RplSemiSyncMasterEnabled = TRUE,
                            ![idx].RplSemiSyncSlaveEnabled = FALSE]
        expected == replicas \div 2
        observed == Deref(status[idx].GlobalVariableStatus).RplSemiSyncMasterWaitForSlaveCount
        m2 == [m1 EXCEPT ![idx].RplSemiSyncMasterWaitForSlaveCount = expected]
    IN  IF failAt = "getDB"
        THEN Outcome(mysql, cluster, store, <<>>, ErrOperator)
        ELSE IF failAt = "semisync"
        THEN Outcome(mysql, cluster, store, <<StmtSemiSyncMaster>>, ErrOperator)
        ELSE IF failAt = "update"
        THEN Outcome(m1, c1, store, <<StmtSemiSyncMaster>>, ErrOperator)
        ELSE IF observed = expected
        THEN Outcome(m1, c1, c1, <<StmtSemiSyncMaster>>, ErrNil)
        ELSE IF failAt = "waitcount"
        THEN Outcome(m1, c1, c1, <<StmtSemiSyncMaster, StmtWaitForSlaveCount>>, ErrOperator)
        ELSE Outcome(m2, c1, c1, <<StmtSemiSyncMaster, StmtWaitForSlaveCount>>, ErrNil)

\* updatePrimaryOp.Run; failAt names the call that returns the error.
updatePrimaryOpRun(o, failAt) ==
    LET idx == o.newPrimaryIndex
        c1 == [cluster EXCEPT !.CurrentPrimaryIndex = Ptr(idx)]
        s1 == c1
        m1 == [mysql EXCEPT ![idx].RplSemiSyncMasterEnabled = TRUE,
                            ![idx].RplSemiSyncSlaveEnabled = FALSE]
        expected == replicas \div 2
        observed == Deref(status[idx].GlobalVariableStatus).RplSemiSyncMasterWaitForSlaveCount
        m2 == [m1 EXCEPT ![idx].RplSemiSyncMasterWaitForSlaveCount = expected]
    IN  IF failAt = "getDB"
        THEN Outcome(mysql, cluster, store, <<>>, ErrOperator)
        ELSE IF failAt = "update"
        THEN Outcome(mysql, c1, store, <<>>, ErrOperator)
        ELSE IF failAt = "semisync"
        THEN Outcome(mysql, c1, s1, <<StmtSemiSyncMaster>>, ErrOperator)
        ELSE IF observed = expected
        THEN Outcome(m1, c1, s1, <<StmtSemiSyncMaster>>, ErrNil)
        ELSE IF failAt = "waitcount"
        THEN Outcome(m1, c1, s1, <<StmtSemiSyncMaster, StmtWaitForSlaveCount>>, ErrOperator)
        ELSE Outcome(m2, c1, s1, <<StmtSemiSyncMaster, StmtWaitForSlaveCount>>, ErrNil)

ConfigureReplicationFailures ==
    {"none", "getPassword", "getDB", "stop", "change", "semisync", "start"}

\* configureReplicationOp.Run. CHANGE MASTER TO records the new master host;
\* START SLAVE starts a fresh I/O thread, which clears Last_IO_Errno.
configureReplicationOpRun(o, failAt) ==
    LET i == o.index
        old == mysql[i].Replica
        m1 == [mysql EXCEPT ![i].Replica =
                  Ptr([MasterHost |-> o.primaryHost,
                       LastIoErrno |-> IF old = Nil THEN 0 ELSE Deref(old).LastIoErrno])]
        m2 == [m1 EXCEPT ![i].RplSemiSyncMasterEnabled = FALSE,
                         ![i].RplSemiSyncSlaveEnabled = TRUE]
        m3 == [m2 EXCEPT ![i].Replica =
                  Ptr([MasterHost |-> o.primaryHost, LastIoErrno |-> 0])]
        all == <<StmtStopSlave, StmtChangeMaster, StmtSemiSyncSlave, StmtStartSlave>>
    IN  IF failAt \in {"getPassword", "getDB"}
        THEN Outcome(mysql, cluster, store, <<>>, ErrOperator)
        ELSE IF failAt = "stop"
        THEN Outcome(mysql, cluster, store, SubSeq(all, 1, 1), ErrOperator)
        ELSE IF failAt = "change"
        THEN Outcome(mysql, cluster, store, SubSeq(all, 1, 2), ErrOperator)
        ELSE IF failAt = "semisync"
        THEN Outcome(m1, cluster, store, SubSeq(all, 1, 3), ErrOperator)
        ELSE IF failAt = "start"
        THEN Outcome(m2, cluster, store, all, ErrOperator)
        ELSE Outcome(m3, cluster, store, all, ErrNil)

TurnOffReadOnlyFailures == {"none", "getDB", "exec"}

\* turnOffReadOnlyOp.Run connected to the last instance, not to primaryIndex.
turnOffReadOnlyOpRunLastInstance(o, failAt) ==
    IF failAt = "getDB"
    THEN Outcome(mysql, cluster, store, <<>>, ErrOperator)
    ELSE IF failAt = "exec"
    THEN Outcome(mysql, cluster, store, <<StmtReadOnlyOff>>, ErrOperator)
    ELSE Outcome([mysql EXCEPT ![replicas - 1].ReadOnly = FALSE],
                 cluster, store, <<StmtReadOnlyOff>>, ErrNil)

\* turnOffReadOnlyOp.Run
turnOffReadOnlyOpRun(o, failAt) ==
    IF failAt = "getDB"
    THEN Outcome(mysql, cluster, store, <<>>, ErrOperator)
    ELSE IF failAt = "exec"
    THEN Outcome(mysql, cluster, store, <<StmtReadOnlyOff>>, ErrOperator)
    ELSE Outcome([mysql EXCEPT ![o.primaryIndex].ReadOnly = FALSE],
                 cluster, store, <<StmtReadOnlyOff>>, ErrNil)

(* ---------------------------- status writers --------------------------- *)
\* setFailureCondition leaving Available as it was.
setFailureConditionKeepsAvailable(cl, outOfSyncInstances) ==
    [cl EXCEPT !.Conditions =
        setConditions(cl.Conditions, << Cond(ConditionFailure, ConditionTrue),
                                        Cond(ConditionHealthy, ConditionFalse) >>)]

\* setFailureCondition leaving Healthy as it was.
setFailureConditionKeepsHealthy(cl, outOfSyncInstances) ==
    [cl EXCEPT !.Conditions =
        setConditions(cl.Conditions, << Cond(ConditionFailure, ConditionTrue),
                                        Cond(ConditionAvailable, ConditionFalse) >>)]

\* setFailureCondition setting OutOfSync=True whatever the list holds.
setFailureConditionMarksOutOfSync(cl, outOfSyncInstances) ==
    [cl EXCEPT !.Conditions =
        setConditions(cl.Conditions, << Cond(ConditionFailure, ConditionTrue),
                                        Cond(ConditionAvailable, ConditionFalse),
                                        Cond(ConditionHealthy, ConditionFalse),
                                        Cond(ConditionOutOfSync, ConditionTrue) >>)]

\* The in-memory status after setFailureCondition's setCondition calls.
setFailureCondition(cl, outOfSyncInstances) ==
    LET base == << Cond(ConditionFailure, ConditionTrue),
                   Cond(ConditionAvailable, ConditionFalse),
                   Cond(ConditionHealthy, ConditionFalse) >>
        list == IF Len(outOfSyncInstances) # 0
                THEN Append(base, Cond(ConditionOutOfSync, ConditionTrue))
                ELSE base
    IN  [cl EXCEPT !.Conditions = setConditions(cl.Conditions, list)]

RECURSIVE mirrorReady(_, _)
mirrorReady(ready, conditions) ==
    IF conditions = <<>> THEN ready
    ELSE mirrorReady(IF Head(conditions).Type = ConditionAvailable
                     THEN Head(conditions).Status ELSE ready,
                     Tail(conditions))

\* setMySQLClusterStatus building the status anew, dropping the primary index.
setMySQLClusterStatusFresh(cl, conditions, syncedStatus) ==
    [cl EXCEPT !.Ready = mirrorReady(cl.Ready, conditions),
               !.Conditions = setConditions(cl.Conditions, conditions),
               !.SyncedReplicas = IF syncedStatus # Nil THEN Deref(syncedStatus)
                                  ELSE cl.SyncedReplicas,
               !.CurrentPrimaryIndex = Nil]

\* The in-memory status after setMySQLClusterStatus's loop and assignment.
setMySQLClusterStatus(cl, conditions, syncedStatus) ==
    [cl EXCEPT !.Ready = mirrorReady(cl.Ready, conditions),
               !.Conditions = setConditions(cl.Conditions, conditions),
               !.SyncedReplicas = IF syncedStatus # Nil THEN Deref(syncedStatus)
                                  ELSE cl.SyncedReplicas]

(* ------------------------------- Init ---------------------------------- *)
NoStatus == <<>>
\* ctrl.Result's RequeueAfter, in seconds.
RequeueAfter == 10

\* What a reconcile has done so far: the status write it made and whether
\* the store took it, the requeue it asks for, the statements its last
\* operator sent, and the stored status it was called with.
NoResult(stored) ==
    [write |-> "none", persisted |-> FALSE, requeueAfter |-> 0,
     issued |-> <<>>, before |-> stored]

TypeOK ==
    /\ replicas \in 1 .. MaxReplicas
    /\ pc \in {"idle", "run", "fail", "done", "panic"}
    /\ next \in 0 .. Len(op.Operators)
    /\ DOMAIN mysql = Instances

Init ==
    /\ replicas \in 1 .. MaxReplicas
    /\ \E ro \in [0 .. (replicas - 1) -> BOOLEAN],
          gt \in {g \in [0 .. (replicas - 1) -> 0 .. MaxGtid] :
                    \A i \in DOMAIN g : g[i] <= g[0]},
          w \in 0 .. MaxWaitCount,
          rep \in {Nil, Ptr([MasterHost |-> ForeignHost, LastIoErrno |-> 0])} :
          mysql = [i \in 0 .. (replicas - 1) |->
                      [ReadOnly |-> ro[i],
                       RplSemiSyncMasterWaitForSlaveCount |-> w,
                       RplSemiSyncMasterEnabled |-> FALSE,
                       RplSemiSyncSlaveEnabled |-> FALSE,
                       Replica |-> rep,
                       Gtid |-> gt[i]]]
    /\ \E cpi \in {Nil, Ptr(0), Ptr(replicas - 1)},
          conds \in {NoConditions, setCondition(NoConditions,
                                       Cond(ConditionViolation, ConditionTrue))} :
          store = [CurrentPrimaryIndex |-> cpi,
                   SyncedReplicas |-> 0,
                   Ready |-> "",
                   Conditions |-> conds]
    /\ cluster = store
    /\ status = NoStatus
    /\ op = NoOperation
    /\ next = 0
    /\ err = ErrNil
    /\ result = NoResult(store)
    /\ pc = "idle"

(* --------------------------- the reconcile driver ---------------------- *)
\* reconcileClustering lines 81-91: probe, plan, and branch on the plan's error.
\* The observation is dead once the availability gate has failed.
PlanWith(outcomes) ==
    /\ pc = "idle"
    /\ \E fail \in outcomes :
        LET st == getMySQLClusterStatus(fail)
            d == decideNextOperation(st, store)
        IN  /\ cluster' = store
            /\ status' = IF d.err = ErrUnavailableHost THEN NoStatus ELSE st
            /\ op' = d.op
            /\ err' = d.err
            /\ pc' = IF d.err = ErrPanic THEN "panic"
                     ELSE IF d.err # ErrNil THEN "fail" ELSE "run"
    /\ next' = 0
    /\ result' = NoResult(store)
    /\ UNCHANGED <<replicas, mysql, store>>

Plan == PlanWith(ProbeOutcomes)

NextOperator == op.Operators[next + 1]

\* The operator loop going on to the next operator after an error.
RanContinues(r) ==
    /\ mysql' = r.mysql
    /\ cluster' = r.cluster
    /\ store' = r.store
    /\ err' = r.err
    /\ pc' = "run"
    /\ next' = next + 1
    /\ result' = [result EXCEPT !.issued = r.issued]
    /\ UNCHANGED <<replicas, status, op>>

Ran(r) ==
    /\ mysql' = r.mysql
    /\ cluster' = r.cluster
    /\ store' = r.store
    /\ err' = r.err
    /\ IF r.err # ErrNil
       THEN pc' = "fail" /\ next' = next
       ELSE pc' = "run" /\ next' = next + 1
    /\ result' = [result EXCEPT !.issued = r.issued]
    /\ UNCHANGED <<replicas, status, op>>

\* Lines 93-95 for each kind of operator: run the next operator of the list.
RunUpdatePrimaryWith(failures) ==
    /\ pc = "run"
    /\ next < Len(op.Operators)
    /\ NextOperator.Name = OperatorUpdatePrimary
    /\ \E failAt \in failures : Ran(updatePrimaryOpRun(NextOperator, failAt))

RunConfigureReplicationWith(failures) ==
    /\ pc = "run"
    /\ next < Len(op.Operators)
    /\ NextOperator.Name = OperatorConfigureReplication
    /\ \E failAt \in failures : Ran(configureReplicationOpRun(NextOperator, failAt))

RunTurnOffReadOnlyWith(failures) ==
    /\ pc = "run"
    /\ next < Len(op.Operators)
    /\ NextOperator.Name = OperatorTurnOffReadOnly
    /\ \E failAt \in failures : Ran(turnOffReadOnlyOpRun(NextOperator, failAt))

RunUpdatePrimary == RunUpdatePrimaryWith(UpdatePrimaryFailures)

RunConfigureReplication == RunConfigureReplicationWith(ConfigureReplicationFailures)

RunTurnOffReadOnly == RunTurnOffReadOnlyWith(TurnOffReadOnlyFailures)

\* Lines 86-90 and 96-100: the failure path; the original error is returned.
WriteFailure ==
    /\ pc = "fail"
    /\ cluster' = setFailureCondition(cluster, <<>>)
    /\ \E ok \in BOOLEAN :
          /\ store' = IF ok THEN cluster' ELSE store
          /\ result' = [result EXCEPT !.write = "failure", !.persisted = ok]
    /\ pc' = "done"
    /\ UNCHANGED <<replicas, mysql, status, op, next, err>>

\* Lines 103-109: the success path.
WriteStatusWith(updates) ==
    /\ pc = "run"
    /\ next = Len(op.Operators)
    /\ cluster' = setMySQLClusterStatus(cluster, op.Conditions, op.SyncedReplicas)
    /\ \E ok \in updates :
          /\ store' = IF ok THEN cluster' ELSE store
          /\ err' = IF ok THEN ErrNil ELSE ErrStatusUpdate
          /\ result' = [result EXCEPT
                            !.write = "status", !.persisted = ok,
                            !.requeueAfter = IF ok /\ op.Wait THEN RequeueAfter ELSE 0]
    /\ pc' = "done"
    /\ UNCHANGED <<replicas, mysql, status, op, next>>

WriteStatus == WriteStatusWith(BOOLEAN)

\* The reconcile returns; the runtime calls it again with the stored resource.
Return ==
    /\ pc = "done"
    /\ pc' = "idle"
    /\ cluster' = store
    /\ status' = NoStatus
    /\ op' = NoOperation
    /\ next' = 0
    /\ err' = ErrNil
    /\ result' = NoResult(store)
    /\ UNCHANGED <<replicas, mysql, store>>

(* ------------------------------ environment ---------------------------- *)
\* A replica whose I/O thread is healthy executes what its master executed.
ReplicaCatchUp ==
    /\ pc = "idle"
    /\ \E i \in Instances, j \in Instances :
          /\ i # j
          /\ mysql[i].Replica # Nil
          /\ Deref(mysql[i].Replica).MasterHost = PrimaryHost(j)
          /\ Deref(mysql[i].Replica).LastIoErrno = 0
          /\ mysql[i].Gtid # mysql[j].Gtid
          /\ mysql' = [mysql EXCEPT ![i].Gtid = mysql[j].Gtid]
    /\ UNCHANGED <<replicas, store, cluster, status, op, next, err, result, pc>>

\* The I/O thread of a replica fails, or recovers.
ReplicaIoError ==
    /\ pc = "idle"
    /\ \E i \in Instances, j \in Instances :
          /\ i # j
          /\ mysql[i].Replica # Nil
          /\ Deref(mysql[i].Replica).MasterHost = PrimaryHost(j)
          /\ mysql' = [mysql EXCEPT ![i].Replica =
                Ptr([Deref(mysql[i].Replica) EXCEPT
                        !.LastIoErrno = IF @ = 0 THEN MaxIoErrno ELSE 0])]
    /\ UNCHANGED <<replicas, store, cluster, status, op, next, err, result, pc>>

\* Somebody outside the controller repairs a writable instance: read_only=ON.
ExternalSetReadOnly ==
    /\ pc = "idle"
    /\ \E i \in Instances :
          /\ ~mysql[i].ReadOnly
          /\ mysql' = [mysql EXCEPT ![i].ReadOnly = TRUE]
    /\ UNCHANGED <<replicas, store, cluster, status, op, next, err, result, pc>>

Next ==
    \/ Plan
    \/ RunUpdatePrimary
    \/ RunConfigureReplication
    \/ RunTurnOffReadOnly
    \/ WriteFailure
    \/ WriteStatus
    \/ Return
    \/ ReplicaCatchUp
    \/ ReplicaIoError
    \/ ExternalSetReadOnly

Spec == Init /\ [][Next]_vars

(* ------------------- the failure-free, fair system --------------------- *)
\* A cluster just created: no primary recorded, no condition written, every
\* instance read-only.
LiveInit ==
    /\ Init
    /\ store.CurrentPrimaryIndex = Nil
    /\ store.Conditions = NoConditions
    /\ \A i \in Instances : mysql[i].ReadOnly

AllAnswer == {[i \in Instances |-> "none"]}

LivePlan == PlanWith(AllAnswer)

LiveRunUpdatePrimary == RunUpdatePrimaryWith({"none"})

LiveRunConfigureReplication == RunConfigureReplicationWith({"none"})

LiveRunTurnOffReadOnly == RunTurnOffReadOnlyWith({"none"})

LiveWriteStatus == WriteStatusWith({TRUE})

LiveReconcile ==
    \/ LivePlan
    \/ LiveRunUpdatePrimary
    \/ LiveRunConfigureReplication
    \/ LiveRunTurnOffReadOnly
    \/ LiveWriteStatus
    \/ Return

LiveNext ==
    \/ LivePlan
    \/ LiveRunUpdatePrimary
    \/ LiveRunConfigureReplication
    \/ LiveRunTurnOffReadOnly
    \/ LiveWriteStatus
    \/ Return
    \/ ReplicaCatchUp

\* The runtime calls the reconcile again and again (a 30 s ticker and the
\* 10 s requeue); replication proceeds whatever the controller does.
LiveSpec ==
    /\ LiveInit
    /\ [][LiveNext]_vars
    /\ WF_vars(LiveReconcile)
    /\ SF_vars(ReplicaCatchUp)

(* ------------- read_only changed by the operators only ----------------- *)
\* Every instance starts read-only; the recorded primary and the stored
\* conditions are any of Init's.
ReadOnlyInit ==
    /\ Init
    /\ \A i \in Instances : mysql[i].ReadOnly

\* Every step of the reconcile, failing ones included, and replication's own
\* steps; nobody else sets read_only.
OperatorsOnlyNext ==
    \/ Plan
    \/ RunUpdatePrimary
    \/ RunConfigureReplication
    \/ RunTurnOffReadOnly
    \/ WriteFailure
    \/ WriteStatus
    \/ Return
    \/ ReplicaCatchUp
    \/ ReplicaIoError

OperatorsOnlySpec == ReadOnlyInit /\ [][OperatorsOnlyNext]_vars

(* ------------------- a resource with no condition yet ------------------ *)
EmptyConditionsInit ==
    /\ Init
    /\ store.Conditions = NoConditions

EmptyConditionsSpec == EmptyConditionsInit /\ [][Next]_vars

(* ------------------------------- claims -------------------------------- *)
Writable == {i \in Instances : ~mysql[i].ReadOnly}

Has(conditions, t, s) == t \in DOMAIN conditions /\ conditions[t] = s

Plans(t, s) == \E k \in 1 .. Len(op.Conditions) : op.Conditions[k] = Cond(t, s)

\* The reconcile is about to return nil after writing Available=True.
WroteAvailable ==
    /\ pc = "done"
    /\ err = ErrNil
    /\ result.write = "status"
    /\ Plans(ConditionAvailable, ConditionTrue)

\* What the planner returns when the reconcile is called again right now,
\* every instance answering the probe.
NextPlan == decideNextOperation(getMySQLClusterStatus([i \in Instances |-> "none"]), store)

\* C1: after a reconcile that returns without error and writes
\* Available=True, at most one instance is writable, and a writable instance
\* is the one at the persisted currentPrimaryIndex.
C1_OneWriterIsPrimary ==
    WroteAvailable =>
        /\ Cardinality(Writable) <= 1
        /\ Has(store.Conditions, ConditionAvailable, ConditionTrue)
        /\ \A i \in Writable :
              store.CurrentPrimaryIndex # Nil /\ Deref(store.CurrentPrimaryIndex) = i

C1_Witness ==
    /\ WroteAvailable
    /\ replicas > 1
    /\ next = 1
    /\ op.Operators[1].Name = OperatorTurnOffReadOnly
    /\ Writable = {0}

\* C2: after any reconcile that writes Available=True, the instance at
\* currentPrimaryIndex has rpl_semi_sync_master_wait_for_slave_count equal to
\* floor(replicas/2).
C2_WaitCountAtPrimary ==
    WroteAvailable =>
        mysql[Deref(store.CurrentPrimaryIndex)].RplSemiSyncMasterWaitForSlaveCount
            = replicas \div 2

\* The out-of-sync instances of this reconcile's observation.
OutOfSync ==
    {i \in DOMAIN status :
        /\ i # Deref(cluster.CurrentPrimaryIndex)
        /\ status[i].ReplicaStatus # Nil
        /\ Deref(status[i].ReplicaStatus).LastIoErrno # 0}

StoredSynced ==
    /\ pc = "done"
    /\ result.write = "status"
    /\ result.persisted
    /\ op.SyncedReplicas # Nil

\* C3: whenever a reconcile stores syncedReplicas, the stored value is
\* N-1-|outOfSync| and so lies in 0 .. N-1.
C3_SyncedReplicas ==
    StoredSynced =>
        /\ store.SyncedReplicas = replicas - 1 - Cardinality(OutOfSync)
        /\ store.SyncedReplicas \in 0 .. (replicas - 1)

\* C4: a reconcile that observes a constraint violation runs no operator,
\* returns ErrConstraintsViolation, and the status it persists carries
\* Violation=True, Failure=True, Available=False and Healthy=False.
C4_ViolationPersisted ==
    (pc = "done" /\ err = ErrConstraintsViolation /\ result.persisted) =>
        /\ next = 0
        /\ Has(store.Conditions, ConditionViolation, ConditionTrue)
        /\ Has(store.Conditions, ConditionFailure, ConditionTrue)
        /\ Has(store.Conditions, ConditionAvailable, ConditionFalse)
        /\ Has(store.Conditions, ConditionHealthy, ConditionFalse)

C6_UnavailableHost ==
    /\ pc = "idle" =>
          \A fail \in ProbeOutcomes \ AllAnswer :
              decideNextOperation(getMySQLClusterStatus(fail), store)
                  = [op |-> NoOperation, err |-> ErrUnavailableHost]
    /\ (pc \in {"fail", "done"} /\ err = ErrUnavailableHost) =>
          /\ next = 0
          /\ op.Operators = <<>>
    /\ (pc = "done" /\ err = ErrUnavailableHost) =>
          /\ result.write = "failure"
          /\ Has(cluster.Conditions, ConditionFailure, ConditionTrue)
          /\ Has(cluster.Conditions, ConditionAvailable, ConditionFalse)
          /\ Has(cluster.Conditions, ConditionHealthy, ConditionFalse)
          /\ result.persisted => store = cluster

C6_Witness ==
    /\ pc = "done"
    /\ err = ErrUnavailableHost
    /\ result.persisted
    /\ Cardinality(Writable) > 1
    /\ Has(store.Conditions, ConditionFailure, ConditionTrue)

AvailableStatus ==
    IF ConditionAvailable \in DOMAIN store.Conditions
    THEN store.Conditions[ConditionAvailable]
    ELSE ""

\* C7: in every persisted cluster status the ready tri-state equals the
\* status value of the Available condition.
C7_ReadyMirrorsAvailable == store.Ready = AvailableStatus

\* C8 as stated: after a reconcile that returned without error, a second
\* reconcile against the unchanged cluster plans zero operators.
C8_SecondCallPlansNothing ==
    (pc = "done" /\ err = ErrNil) => Len(NextPlan.op.Operators) = 0

\* C8 as amended: after a reconcile that returned without error from the
\* replication gate or later (it waited, or it wrote Available=True), a
\* second reconcile against the unchanged cluster plans zero operators.
C8_SecondCallAfterGate ==
    (pc = "done" /\ err = ErrNil /\ op.Conditions # <<>>) =>
        /\ NextPlan.err = ErrNil
        /\ Len(NextPlan.op.Operators) = 0

C8_Witness ==
    /\ WroteAvailable
    /\ next = 1
    /\ op.Operators[1].Name = OperatorTurnOffReadOnly
    /\ replicas = MaxReplicas

Steady ==
    /\ Writable = {0}
    /\ \A i \in Instances \ {0} :
          /\ mysql[i].Replica # Nil
          /\ Deref(mysql[i].Replica).MasterHost = PrimaryHost(0)
    /\ Has(store.Conditions, ConditionAvailable, ConditionTrue)
    /\ NextPlan.err = ErrNil
    /\ Len(NextPlan.op.Operators) = 0

\* C9: from a fresh cluster with every instance read-only, without failures
\* and with replicas that catch up, repeated reconciles reach and keep the
\* steady state: only instance 0 writable, every other instance replicating
\* from the primary's DNS name, Available=True persisted, nothing planned.
C9_Converges == <>[]Steady

C9_Witness ==
    /\ Steady
    /\ replicas = MaxReplicas
    /\ pc = "idle"

UpdatePrimaryIsNext ==
    /\ next < Len(op.Operators)
    /\ NextOperator.Name = OperatorUpdatePrimary

\* C10 as stated: the persisted currentPrimaryIndex changes only in the step
\* that runs the UpdatePrimary operator, never in a status write of the
\* driver, and is never reset to absent.
C10_OnlyUpdatePrimaryOperator ==
    [][/\ store.CurrentPrimaryIndex' # store.CurrentPrimaryIndex =>
            (pc = "run" /\ UpdatePrimaryIsNext)
       /\ store.CurrentPrimaryIndex # Nil => store.CurrentPrimaryIndex' # Nil]_vars

\* C10 as amended: the persisted currentPrimaryIndex changes only to the
\* index of an UpdatePrimary operator of the running reconcile: in the step
\* that runs it, or in the failure-path status write that follows its failure;
\* no other operator and no success-path write changes it, and it is never
\* reset to absent.
C10_OnlyUpdatePrimaryReconcile ==
    [][/\ store.CurrentPrimaryIndex' # store.CurrentPrimaryIndex =>
            /\ pc \in {"run", "fail"}
            /\ UpdatePrimaryIsNext
            /\ store.CurrentPrimaryIndex' = Ptr(NextOperator.newPrimaryIndex)
       /\ store.CurrentPrimaryIndex # Nil => store.CurrentPrimaryIndex' # Nil]_vars

C10_Witness ==
    /\ pc = "done"
    /\ op.Operators # <<>>
    /\ op.Operators[1].Name = OperatorUpdatePrimary
    /\ store.CurrentPrimaryIndex = Ptr(0)
    /\ result.write = "status"

UpdatePrimaryStatements == {StmtSemiSyncMaster, StmtWaitForSlaveCount}

\* C11: UpdatePrimary persists currentPrimaryIndex = newIndex before it sends
\* any MySQL statement: whenever one of its SET GLOBAL statements has been
\* sent the store holds newIndex, and when the operator has failed with the
\* store not holding newIndex (getDB or the store update failed) it has sent
\* no statement.
C11_StoreBeforeStatements ==
    /\ \A k \in 1 .. Len(result.issued) :
          result.issued[k] \in UpdatePrimaryStatements =>
             /\ op.Operators[1].Name = OperatorUpdatePrimary
             /\ store.CurrentPrimaryIndex = Ptr(op.Operators[1].newPrimaryIndex)
    /\ (/\ pc = "fail"
        /\ UpdatePrimaryIsNext
        /\ store.CurrentPrimaryIndex # Ptr(NextOperator.newPrimaryIndex)) =>
          result.issued = <<>>

C11_Witness ==
    /\ pc = "fail"
    /\ UpdatePrimaryIsNext
    /\ result.issued = <<StmtSemiSyncMaster, StmtWaitForSlaveCount>>
    /\ result.before.CurrentPrimaryIndex # Ptr(0)
    /\ store.CurrentPrimaryIndex = Ptr(0)

\* The reconcile whose plan said wait is about to return.
Waited == pc = "done" /\ op.Wait

\* What a waiting reconcile did before its store update: no operator, no
\* statement, the unavailable condition set in the in-memory status.
WaitedQuietly ==
    /\ op.Operators = <<>>
    /\ next = 0
    /\ result.issued = <<>>
    /\ result.write = "status"
    /\ Has(cluster.Conditions, ConditionAvailable, ConditionFalse)
    /\ Has(cluster.Conditions, ConditionHealthy, ConditionFalse)
    /\ Has(cluster.Conditions, ConditionFailure, ConditionFalse)
    /\ Has(cluster.Conditions, ConditionOutOfSync,
           IF OutOfSync = {} THEN ConditionFalse ELSE ConditionTrue)

\* C12 as stated: whenever the planner returns wait=true the reconcile runs no
\* operator, writes Available=False, Healthy=False, Failure=False (and
\* OutOfSync=False when no replica has an I/O error), and its result asks for
\* a requeue after 10 seconds.
C12_WaitRequeues ==
    Waited => (WaitedQuietly /\ result.requeueAfter = RequeueAfter)

\* C12 as amended: whenever the planner returns wait=true the reconcile runs
\* no operator and sets Available=False, Healthy=False, Failure=False
\* (OutOfSync=False when no replica has an I/O error); when the store takes
\* the status the result asks for a requeue after 10 seconds, and when the
\* store update fails the stored status stays as it was and the update's
\* error is returned with no requeue interval.
C12_WaitRequeuesWhenStored ==
    Waited =>
        /\ WaitedQuietly
        /\ result.persisted =>
              /\ store = cluster
              /\ err = ErrNil
              /\ result.requeueAfter = RequeueAfter
        /\ ~result.persisted =>
              /\ store = result.before
              /\ err = ErrStatusUpdate
              /\ result.requeueAfter = 0

C12_Witness ==
    /\ Waited
    /\ result.persisted
    /\ result.requeueAfter = RequeueAfter
    /\ Has(result.before.Conditions, ConditionFailure, ConditionTrue)
    /\ Has(store.Conditions, ConditionFailure, ConditionFalse)
    /\ OutOfSync = {}

\* The plan stopped at the stage that plans operators of this kind.
OnlyOperators(name) ==
    /\ Len(op.Operators) > 0
    /\ \A k \in 1 .. Len(op.Operators) : op.Operators[k].Name = name

\* C13: the operator list of a reconcile is empty, or [UpdatePrimary(0)], or a
\* non-empty list of ConfigureReplication operators only, or
\* [TurnOffReadOnly(currentPrimaryIndex)]; operators of different kinds never
\* come together, and a plan that stopped at UpdatePrimary or
\* ConfigureReplication carries nothing of the later stages.
C13_OneKindOfOperator ==
    /\ \/ op.Operators = <<>>
       \/ /\ OnlyOperators(OperatorUpdatePrimary)
          /\ Len(op.Operators) = 1
          /\ op.Operators[1].newPrimaryIndex = 0
       \/ OnlyOperators(OperatorConfigureReplication)
       \/ /\ OnlyOperators(OperatorTurnOffReadOnly)
          /\ Len(op.Operators) = 1
          /\ cluster.CurrentPrimaryIndex = Ptr(op.Operators[1].primaryIndex)
    /\ (\/ OnlyOperators(OperatorUpdatePrimary)
        \/ OnlyOperators(OperatorConfigureReplication)) =>
          /\ op.Conditions = <<>>
          /\ op.SyncedReplicas = Nil
          /\ ~op.Wait

C13_Witness ==
    /\ pc = "run"
    /\ next = 0
    /\ OnlyOperators(OperatorConfigureReplication)
    /\ Len(op.Operators) = 2
    /\ mysql[0].ReadOnly

\* The planner has just returned without error: every instance answered, no
\* constraint is violated or recovered, no operator has run yet.
JustPlanned == pc = "run" /\ next = 0

PlansOperator(name) ==
    \E k \in 1 .. Len(op.Operators) : op.Operators[k].Name = name

\* C14: with all instances available and no constraint violation or recovery,
\* the plan holds an UpdatePrimary operator if and only if the persisted
\* currentPrimaryIndex is absent or differs from 0, and then the plan is
\* exactly one UpdatePrimary(0): no condition, no syncedReplicas, wait=false.
C14_UpdatePrimaryIffNotZero ==
    JustPlanned =>
        /\ PlansOperator(OperatorUpdatePrimary) <=>
              (\/ store.CurrentPrimaryIndex = Nil
               \/ Deref(store.CurrentPrimaryIndex) # 0)
        /\ PlansOperator(OperatorUpdatePrimary) =>
              /\ Len(op.Operators) = 1
              /\ op.Operators[1].newPrimaryIndex = 0
              /\ op.Conditions = <<>>
              /\ op.SyncedReplicas = Nil
              /\ ~op.Wait

C14_Witness ==
    /\ JustPlanned
    /\ PlansOperator(OperatorUpdatePrimary)
    /\ store.CurrentPrimaryIndex # Nil
    /\ Deref(store.CurrentPrimaryIndex) = replicas - 1
    /\ replicas > 1

\* The plan got past the primary stage: the recorded primary is the selected one.
ReachedReplicationStage == JustPlanned /\ ~PlansOperator(OperatorUpdatePrimary)

\* The non-primary instances observed without a replica status, or with a
\* master host other than the primary's DNS name.
Unconfigured ==
    {i \in Instances :
        /\ i # Deref(store.CurrentPrimaryIndex)
        /\ \/ status[i].ReplicaStatus = Nil
           \/ Deref(status[i].ReplicaStatus).MasterHost
                 # HostOf(uniqueName, Deref(store.CurrentPrimaryIndex))}

\* C15: when the replication stage is reached the plan holds one
\* ConfigureReplication(i, primary's DNS name) for exactly the non-primary
\* instances observed with no replica status or another master host, in
\* ascending order of i and never for the primary; so a plan of the gate stage
\* or later observed every non-primary instance replicating from the primary.
C15_ConfigureExactlyUnconfigured ==
    ReachedReplicationStage =>
        /\ Unconfigured # {} =>
              /\ Len(op.Operators) = Cardinality(Unconfigured)
              /\ \A k \in 1 .. Len(op.Operators) :
                    /\ op.Operators[k].Name = OperatorConfigureReplication
                    /\ op.Operators[k].index \in Unconfigured
                    /\ op.Operators[k].index # Deref(store.CurrentPrimaryIndex)
                    /\ op.Operators[k].primaryHost
                          = HostOf(uniqueName, Deref(store.CurrentPrimaryIndex))
              /\ \A k, l \in 1 .. Len(op.Operators) :
                    k < l => op.Operators[k].index < op.Operators[l].index
        /\ Unconfigured = {} => ~PlansOperator(OperatorConfigureReplication)
        /\ op.Conditions # <<>> => Unconfigured = {}

C15_Witness ==
    /\ ReachedReplicationStage
    /\ replicas = 3
    /\ Unconfigured = {2}
    /\ Len(op.Operators) = 1
    /\ op.Operators[1].Name = OperatorConfigureReplication

\* The plan came from the replication gate or the stage after it.
ReachedGate == JustPlanned /\ op.Conditions # <<>>

ObservedPrimaryReadOnly ==
    Deref(status[Deref(store.CurrentPrimaryIndex)].GlobalVariableStatus).ReadOnly

\* The non-primary instances observed without I/O error and with the
\* primary's executed GTID set.
ObservedCaughtUp ==
    {i \in Instances :
        /\ i # Deref(store.CurrentPrimaryIndex)
        /\ Deref(status[i].ReplicaStatus).LastIoErrno = 0
        /\ Deref(status[i].ReplicaStatus).ExecutedGtidSet
              = Deref(status[Deref(store.CurrentPrimaryIndex)].PrimaryStatus).ExecutedGtidSet}

\* C16: at the replication gate the plan says wait if and only if the primary
\* is observed read-only and fewer than floor(replicas/2) non-primary instances
\* are caught up without I/O error; a writable primary passes the gate whatever
\* the GTID sets are; a read-only primary that passes gets
\* TurnOffReadOnly(currentPrimaryIndex) together with Available=True.
C16_GateWaitsIffNotEnoughCaughtUp ==
    ReachedGate =>
        /\ op.Wait <=>
              (/\ ObservedPrimaryReadOnly
               /\ Cardinality(ObservedCaughtUp) < replicas \div 2)
        /\ ~ObservedPrimaryReadOnly => (~op.Wait /\ op.Operators = <<>>)
        /\ (ObservedPrimaryReadOnly /\ ~op.Wait) =>
              /\ Len(op.Operators) = 1
              /\ op.Operators[1].Name = OperatorTurnOffReadOnly
              /\ op.Operators[1].primaryIndex = Deref(store.CurrentPrimaryIndex)
              /\ Plans(ConditionAvailable, ConditionTrue)

C16_Witness ==
    /\ ReachedGate
    /\ replicas = 3
    /\ ObservedPrimaryReadOnly
    /\ Cardinality(ObservedCaughtUp) = 1
    /\ OutOfSync = {}
    /\ PlansOperator(OperatorTurnOffReadOnly)

\* The reconcile has made the success-path status write of a plan that came
\* from the replication gate or the stage after it.
WroteGateStatus ==
    /\ pc = "done"
    /\ result.write = "status"
    /\ op.Conditions # <<>>

\* C17: in a reconcile that reaches the replication gate the out-of-sync
\* instances are exactly the non-primary instances observed with
\* lastIoErrno # 0: the OutOfSync condition planned and written is True if and
\* only if there is one (False otherwise), syncedReplicas counts the others,
\* and Healthy=True is planned and written if and only if there is none and
\* the gate was passed (Available=True); otherwise Healthy=False.
C17_OutOfSyncAndHealthy ==
    /\ (ReachedGate \/ WroteGateStatus) =>
          /\ Plans(ConditionOutOfSync, ConditionTrue) <=> OutOfSync # {}
          /\ Plans(ConditionOutOfSync, ConditionFalse) <=> OutOfSync = {}
          /\ Plans(ConditionAvailable, ConditionTrue) <=> ~op.Wait
          /\ Plans(ConditionHealthy, ConditionTrue) <=> (OutOfSync = {} /\ ~op.Wait)
          /\ Plans(ConditionHealthy, ConditionFalse) <=> (OutOfSync # {} \/ op.Wait)
          /\ op.SyncedReplicas # Nil =>
                Deref(op.SyncedReplicas) = replicas - Cardinality(OutOfSync)
    /\ WroteGateStatus =>
          /\ Has(cluster.Conditions, ConditionOutOfSync, ConditionTrue) <=> OutOfSync # {}
          /\ Has(cluster.Conditions, ConditionOutOfSync, ConditionFalse) <=> OutOfSync = {}
          /\ Has(cluster.Conditions, ConditionHealthy, ConditionTrue) <=>
                (OutOfSync = {} /\ Has(cluster.Conditions, ConditionAvailable, ConditionTrue))
          /\ result.persisted => store = cluster

C17_Witness ==
    /\ WroteGateStatus
    /\ result.persisted
    /\ OutOfSync # {}
    /\ Has(store.Conditions, ConditionOutOfSync, ConditionTrue)
    /\ Has(store.Conditions, ConditionAvailable, ConditionTrue)
    /\ Has(store.Conditions, ConditionHealthy, ConditionFalse)

\* An operator of the running reconcile has returned an error.
OperatorFailed == pc \in {"fail", "done"} /\ err = ErrOperator

\* The ConfigureReplication operator at position l has done all its work.
Configured(l) ==
    LET i == op.Operators[l].index
    IN  /\ mysql[i].Replica # Nil
        /\ Deref(mysql[i].Replica).MasterHost = op.Operators[l].primaryHost
        /\ mysql[i].RplSemiSyncSlaveEnabled

\* The instance of the ConfigureReplication operator at position l replicates
\* as it was observed to when the reconcile started.
Untouched(l) ==
    LET i == op.Operators[l].index
    IN  getMySQLReplicaStatus(i) = status[i].ReplicaStatus

\* C18: the operators of a reconcile run one after the other in list order
\* and none runs after an error: when operator k fails, operators 1..k-1 keep
\* their effects on MySQL, operators k+1.. have not run, the failure condition
\* set (and not the planner's condition set or syncedReplicas) is written, and
\* the operator's error is returned.
C18_StopAtFirstFailure ==
    /\ pc = "run" => err = ErrNil
    /\ OperatorFailed =>
          /\ next < Len(op.Operators)
          /\ \A l \in 1 .. Len(op.Operators) :
                op.Operators[l].Name = OperatorConfigureReplication =>
                   /\ l <= next => Configured(l)
                   /\ l > next + 1 => Untouched(l)
    /\ (OperatorFailed /\ pc = "done") =>
          /\ result.write = "failure"
          /\ Has(cluster.Conditions, ConditionFailure, ConditionTrue)
          /\ Has(cluster.Conditions, ConditionAvailable, ConditionFalse)
          /\ Has(cluster.Conditions, ConditionHealthy, ConditionFalse)
          /\ cluster.SyncedReplicas = result.before.SyncedReplicas
          /\ store.SyncedReplicas = result.before.SyncedReplicas
          /\ store.Conditions = IF result.persisted THEN cluster.Conditions
                                ELSE result.before.Conditions

C18_Witness ==
    /\ OperatorFailed
    /\ pc = "done"
    /\ Len(op.Operators) = 2
    /\ next = 0
    /\ result.issued = <<StmtStopSlave, StmtChangeMaster, StmtSemiSyncSlave>>
    /\ Untouched(2)
    /\ ~Untouched(1)

\* The reconcile has made the failure-path status write.
WroteFailure == pc = "done" /\ result.write = "failure"

FailureConditionTypes == {ConditionFailure, ConditionAvailable, ConditionHealthy}

\* Conditions a and b agree on the condition of type t: both lack it, or both
\* hold it with the same status.
SameCondition(a, b, t) ==
    /\ t \in DOMAIN a <=> t \in DOMAIN b
    /\ t \in DOMAIN a => a[t] = b[t]

\* What the failure path does to everything but currentPrimaryIndex: the
\* planner's or the operator's error is returned, the in-memory status gets
\* Failure=True, Available=False, Healthy=False and no other change, the store
\* takes these conditions or, when its update fails, keeps the ones it had,
\* and the stored syncedReplicas stays.
FailureWriteFrame ==
    /\ err \in {ErrUnavailableHost, ErrConstraintsViolation,
                ErrConstraintsRecovered, ErrOperator}
    /\ Has(cluster.Conditions, ConditionFailure, ConditionTrue)
    /\ Has(cluster.Conditions, ConditionAvailable, ConditionFalse)
    /\ Has(cluster.Conditions, ConditionHealthy, ConditionFalse)
    /\ DOMAIN cluster.Conditions
          = DOMAIN result.before.Conditions \cup FailureConditionTypes
    /\ \A t \in DOMAIN cluster.Conditions \ FailureConditionTypes :
          SameCondition(cluster.Conditions, result.before.Conditions, t)
    /\ store.Conditions = IF result.persisted THEN cluster.Conditions
                          ELSE result.before.Conditions
    /\ SameCondition(store.Conditions, result.before.Conditions, ConditionOutOfSync)
    /\ SameCondition(store.Conditions, result.before.Conditions, ConditionViolation)
    /\ store.SyncedReplicas = result.before.SyncedReplicas

\* C19 as stated: on the failure path the status write sets exactly
\* Failure=True, Available=False and Healthy=False and leaves the stored
\* OutOfSync and Violation conditions, syncedReplicas and
\* currentPrimaryIndex as they were before the reconcile, and the original
\* error is returned.
C19_FailureLeavesRest ==
    WroteFailure =>
        /\ FailureWriteFrame
        /\ store.CurrentPrimaryIndex = result.before.CurrentPrimaryIndex

\* C19 as amended: on the failure path the status write sets exactly
\* Failure=True, Available=False and Healthy=False, leaves the stored
\* OutOfSync and Violation conditions and syncedReplicas as they were before
\* the reconcile, and returns the original error; the stored
\* currentPrimaryIndex is as before the reconcile too unless the operator
\* that failed is UpdatePrimary, whose new index the store may then hold.
C19_FailureLeavesRestButIndex ==
    WroteFailure =>
        /\ FailureWriteFrame
        /\ store.CurrentPrimaryIndex # result.before.CurrentPrimaryIndex =>
              /\ err = ErrOperator
              /\ UpdatePrimaryIsNext
              /\ store.CurrentPrimaryIndex = Ptr(NextOperator.newPrimaryIndex)

C19_Witness ==
    /\ WroteFailure
    /\ result.persisted
    /\ UpdatePrimaryIsNext
    /\ result.issued = <<>>
    /\ result.before.CurrentPrimaryIndex = Nil
    /\ store.CurrentPrimaryIndex = Ptr(0)
    /\ Has(store.Conditions, ConditionFailure, ConditionTrue)

\* The plan is one operator of this kind, returned without error or wait.
PlanIsOnly(plan, name) ==
    /\ plan.err = ErrNil
    /\ Len(plan.op.Operators) = 1
    /\ plan.op.Operators[1].Name = name
    /\ ~plan.op.Wait

PlanHas(plan, t, s) ==
    \E k \in 1 .. Len(plan.op.Conditions) : plan.op.Conditions[k] = Cond(t, s)

\* C20: with one replica, starting with no recorded primary and the instance
\* available and read-only, the first reconcile plans [UpdatePrimary(0)], the
\* reconcile after it plans [TurnOffReadOnly(0)] with Available=True, and the
\* reconciles after that plan no operator; no reconcile plans
\* ConfigureReplication and none waits at the gate.
C20_SingleInstanceSequence ==
    replicas = 1 =>
        /\ ~PlansOperator(OperatorConfigureReplication)
        /\ ~op.Wait
        /\ (pc = "idle" /\ store.CurrentPrimaryIndex = Nil) =>
              /\ mysql[0].ReadOnly
              /\ PlanIsOnly(NextPlan, OperatorUpdatePrimary)
              /\ NextPlan.op.Operators[1].newPrimaryIndex = 0
        /\ (pc = "done" /\ PlansOperator(OperatorUpdatePrimary)) =>
              /\ PlanIsOnly(NextPlan, OperatorTurnOffReadOnly)
              /\ NextPlan.op.Operators[1].primaryIndex = 0
              /\ PlanHas(NextPlan, ConditionAvailable, ConditionTrue)
        /\ (pc = "done" /\ ~PlansOperator(OperatorUpdatePrimary)) =>
              /\ NextPlan.err = ErrNil
              /\ NextPlan.op.Operators = <<>>
              /\ ~NextPlan.op.Wait
              /\ PlanHas(NextPlan, ConditionAvailable, ConditionTrue)
        /\ JustPlanned =>
              \/ /\ store.CurrentPrimaryIndex = Nil
                 /\ PlansOperator(OperatorUpdatePrimary)
              \/ /\ store.CurrentPrimaryIndex = Ptr(0)
                 /\ mysql[0].ReadOnly
                 /\ PlansOperator(OperatorTurnOffReadOnly)
                 /\ Plans(ConditionAvailable, ConditionTrue)
              \/ /\ store.CurrentPrimaryIndex = Ptr(0)
                 /\ ~mysql[0].ReadOnly
                 /\ op.Operators = <<>>
                 /\ Plans(ConditionAvailable, ConditionTrue)

C20_Witness ==
    /\ replicas = 1
    /\ pc = "done"
    /\ PlansOperator(OperatorTurnOffReadOnly)
    /\ Writable = {0}
    /\ Has(store.Conditions, ConditionAvailable, ConditionTrue)
    /\ NextPlan.op.Operators = <<>>

\* C21: whenever the replication gate is evaluated, currentPrimaryIndex is
\* set to an instance of the cluster, that instance was observed with a
\* primary status and global variables, and every other instance with a
\* replica status; no planner execution dereferences a nil record.
C21_GateDereferencesNoNil ==
    /\ pc # "panic"
    /\ ReachedGate =>
          /\ store.CurrentPrimaryIndex # Nil
          /\ Deref(store.CurrentPrimaryIndex) \in Instances
          /\ status[Deref(store.CurrentPrimaryIndex)].PrimaryStatus # Nil
          /\ status[Deref(store.CurrentPrimaryIndex)].GlobalVariableStatus # Nil
          /\ \A i \in Instances :
                i # Deref(store.CurrentPrimaryIndex) => status[i].ReplicaStatus # Nil

C21_Witness ==
    /\ ReachedGate
    /\ replicas = 3
    /\ op.Wait
    /\ \A i \in Instances : mysql[i].Replica # Nil

\* Every instance of this reconcile's observation was read-only.
ObservedAllReadOnly ==
    \A i \in Instances : Deref(status[i].GlobalVariableStatus).ReadOnly

\* C22: when every instance starts read-only and only the operators change
\* read_only, at most one instance is ever writable and it is the one at the
\* persisted currentPrimaryIndex; a plan holds TurnOffReadOnly(i) only with
\* i = the persisted currentPrimaryIndex and only when the probe of that
\* reconcile observed every instance read-only.
C22_OneWriterEver ==
    /\ Cardinality(Writable) <= 1
    /\ \A i \in Writable : store.CurrentPrimaryIndex = Ptr(i)
    /\ PlansOperator(OperatorTurnOffReadOnly) =>
          /\ Len(op.Operators) = 1
          /\ store.CurrentPrimaryIndex = Ptr(op.Operators[1].primaryIndex)
          /\ ObservedAllReadOnly

C22_Witness ==
    /\ pc = "done"
    /\ replicas = 3
    /\ PlansOperator(OperatorTurnOffReadOnly)
    /\ err = ErrNil
    /\ Writable = {0}
    /\ result.before.CurrentPrimaryIndex = Ptr(0)

\* C23: starting from an empty condition set, every persisted condition set
\* is consistent: Available=True and Failure=True never hold together, and
\* Healthy=True comes only with Available=True, Failure=False and
\* OutOfSync=False.
C23_StoredConditionsConsistent ==
    /\ ~(/\ Has(store.Conditions, ConditionAvailable, ConditionTrue)
         /\ Has(store.Conditions, ConditionFailure, ConditionTrue))
    /\ Has(store.Conditions, ConditionHealthy, ConditionTrue) =>
          /\ Has(store.Conditions, ConditionAvailable, ConditionTrue)
          /\ Has(store.Conditions, ConditionFailure, ConditionFalse)
          /\ Has(store.Conditions, ConditionOutOfSync, ConditionFalse)

C23_Witness ==
    /\ pc = "done"
    /\ result.persisted
    /\ Has(result.before.Conditions, ConditionFailure, ConditionTrue)
    /\ Has(result.before.Conditions, ConditionOutOfSync, ConditionTrue)
    /\ Has(store.Conditions, ConditionHealthy, ConditionTrue)

====
